---- MODULE Spec2Model ----
(***************************************************************************)
(* Model of logan.log_diagnosis.models: the ModelTemplate contract, the    *)
(* ModelRegistry (path-spec parsing, script loading, name -> class cache), *)
(* the ModelManager facade and the built-in ModelZeroShotClassifer.        *)
(*                                                                         *)
(* Python strings are sequences of one-character strings, so that rsplit,  *)
(* strip, endswith and hash act on their content.  A class object is a     *)
(* record [origin, name, gen]: the module that defined it, its attribute   *)
(* name there, and which execution of that module created it (executing a  *)
(* script again creates new class objects).                                *)
(***************************************************************************)
EXTENDS Integers, Sequences, FiniteSets, TLC

---------------------------------------------------------------------------
(* Bounds of the model *)

\* executions of one script file that the model follows
MaxExec == 2
\* Managers constructed
MaxManagers == 2
\* texts in one classify call
MaxTexts == 2

---------------------------------------------------------------------------
(* Python strings *)

\* the characters the model's strings are made of; Code(c) is ord(c)'s stand-in
Chars == <<"a", "b", "c", "m", ".", "p", "y", "t", "x", "/", ":", " ", "~",
           "G", "P", "D", "f", "M">>

Code(c) == CHOOSE i \in 1..Len(Chars) : Chars[i] = c

\* sub in s, for a one-character sub
Contains(s, c) == \E i \in 1..Len(s) : s[i] = c

\* str.split(sep, 1): the split at the first separator
Split1(s, sep) ==
    LET k == CHOOSE i \in 1..Len(s) :
                 s[i] = sep /\ \A j \in 1..(i-1) : s[j] # sep
    IN  <<SubSeq(s, 1, k - 1), SubSeq(s, k + 1, Len(s))>>

\* s.rsplit(sep, 1) when sep occurs in s: the parts around the last sep
RSplit1(s, sep) ==
    LET k == CHOOSE i \in 1..Len(s) :
                 s[i] = sep /\ \A j \in (i+1)..Len(s) : s[j] # sep
    IN  <<SubSeq(s, 1, k - 1), SubSeq(s, k + 1, Len(s))>>

RECURSIVE LStrip(_)
LStrip(s) == IF s # <<>> /\ Head(s) = " " THEN LStrip(Tail(s)) ELSE s

RECURSIVE RStrip(_)
RStrip(s) ==
    IF s # <<>> /\ s[Len(s)] = " " THEN RStrip(SubSeq(s, 1, Len(s) - 1)) ELSE s

\* s.strip()
Strip(s) == RStrip(LStrip(s))

\* s.endswith(suffix)
EndsWith(s, suffix) ==
    /\ Len(s) >= Len(suffix)
    /\ SubSeq(s, Len(s) - Len(suffix) + 1, Len(s)) = suffix

\* s.split("/"): the components between slashes
RECURSIVE SplitSlash(_, _)
SplitSlash(s, cur) ==
    IF s = <<>> THEN <<cur>>
    ELSE IF Head(s) = "/" THEN <<cur>> \o SplitSlash(Tail(s), <<>>)
    ELSE SplitSlash(Tail(s), Append(cur, Head(s)))

\* os.path.normpath on the components of an absolute path: "" and "." are
\* dropped, ".." removes the component before it
RECURSIVE NormComps(_, _)
NormComps(comps, acc) ==
    IF comps = <<>> THEN acc
    ELSE LET c == Head(comps) IN
         IF c = <<>> \/ c = <<".">> THEN NormComps(Tail(comps), acc)
         ELSE IF c = <<".", ".">>
              THEN NormComps(Tail(comps),
                             IF acc = <<>> THEN acc
                             ELSE SubSeq(acc, 1, Len(acc) - 1))
         ELSE NormComps(Tail(comps), Append(acc, c))

RECURSIVE JoinSlash(_)
JoinSlash(comps) ==
    IF comps = <<>> THEN <<>> ELSE <<"/">> \o Head(comps) \o JoinSlash(Tail(comps))

\* the process's home and working directories
HomeDir == <<"/">>
Cwd == <<"/">>

\* os.path.expanduser: a leading "~" becomes the home directory
ExpandUser(p) ==
    IF p # <<>> /\ Head(p) = "~" /\ (Len(p) = 1 \/ p[2] = "/")
    THEN HomeDir \o Tail(p) ELSE p

\* os.path.abspath: join with the working directory unless absolute, normalise
AbsPath(p) ==
    LET full  == IF p # <<>> /\ Head(p) = "/" THEN p ELSE Cwd \o <<"/">> \o p
        comps == NormComps(SplitSlash(full, <<>>), <<>>)
    IN  IF comps = <<>> THEN <<"/">> ELSE JoinSlash(comps)

---------------------------------------------------------------------------
(* The file system and what the scripts define *)

PathA == <<"/", "a", ".", "p", "y">>
PathB == <<"/", "b", ".", "p", "y">>
PathC == <<"/", "c", ".", "t", "x", "t">>

\* os.path.exists
Files == {PathA, PathB, PathC}

\* the module of the calling program, where its own classes are defined
MainModule == <<"__main__">>

\* the package's own module, where ModelZeroShotClassifer is defined
LoganModule == <<"logan">>

\* The attributes a module has after its top-level code ran.  A name stands
\* for what is bound to it: G a ModelTemplate subclass implementing the three
\* operations, P a subclass that leaves classify_fault_category abstract, D a
\* class with the three operations that does not derive from ModelTemplate,
\* L such a class without classify_fault_category, f a function, and
\* ModelTemplate the base class a script imported by name.
ModuleAttrs(origin) ==
    IF origin = PathA
    THEN {<<"G">>, <<"P">>, <<"D">>, <<"f">>, <<"ModelTemplate">>}
    ELSE IF origin = PathB THEN {<<"G">>}
    ELSE IF origin = MainModule THEN {<<"G">>, <<"P">>, <<"D">>, <<"L">>, <<"f">>}
    ELSE IF origin = LoganModule THEN {<<"ModelZeroShotClassifer">>}
    ELSE {}

ContractOps == {"init_model", "classify_golden_signal", "classify_fault_category"}

NoneVal == [origin |-> <<>>, name |-> <<>>, gen |-> 0]

ClassObj(origin, name, gen) == [origin |-> origin, name |-> name, gen |-> gen]

\* isinstance(v, type)
IsType(v) == v # NoneVal /\ v.name # <<"f">>

\* issubclass(v, ModelTemplate)
IsSubclassOfTemplate(v) ==
    v.name \in {<<"G">>, <<"P">>, <<"ModelZeroShotClassifer">>,
                <<"ModelTemplate">>}

\* the contract operations the class implements itself (not abstract)
Implements(v) ==
    IF v.name \in {<<"G">>, <<"D">>, <<"ModelZeroShotClassifer">>} THEN ContractOps
    ELSE IF v.name \in {<<"P">>, <<"L">>}
         THEN {"init_model", "classify_golden_signal"}
    ELSE {}

\* cls.__abstractmethods__: what ABC refuses to instantiate with
AbstractMethods(v) ==
    IF IsSubclassOfTemplate(v) THEN ContractOps \ Implements(v) ELSE {}

\* the keyword arguments the class's constructor takes
AcceptsKw(v) == IF v.origin \in {PathA, MainModule} THEN {"threshold"} ELSE {}

\* dir(module): the module's attribute names in sorted order
Dir(origin) ==
    IF origin = PathA
    THEN <<<<"D">>, <<"G">>, <<"ModelTemplate">>, <<"P">>, <<"f">>>>
    ELSE IF origin = PathB THEN <<<<"G">>>>
    ELSE IF origin = MainModule
    THEN <<<<"D">>, <<"G">>, <<"L">>, <<"P">>, <<"f">>>>
    ELSE IF origin = LoganModule THEN <<<<"ModelZeroShotClassifer">>>>
    ELSE <<>>

---------------------------------------------------------------------------
(* ModelRegistry: pure parts *)

\* the names the AttributeError lists, without the test for a type
available_classes_all(path, gen) == Dir(path)

\* available_classes: the names in dir(module) bound to a type, as the
\* message of the AttributeError lists them
available_classes(path, gen) ==
    LET Bound(name) == IsType(ClassObj(path, name, gen))
    IN  SelectSeq(Dir(path), Bound)

\* a Python dict as the sequence of its items in insertion order
DictHas(d, k) == \E i \in 1..Len(d) : d[i].name = k

DictGet(d, k) ==
    IF DictHas(d, k) THEN d[CHOOSE i \in 1..Len(d) : d[i].name = k].cls
    ELSE NoneVal

\* DictSet with the first value kept when the key is present
DictSet_keep(d, k, v) ==
    IF DictHas(d, k) THEN d ELSE Append(d, [name |-> k, cls |-> v])

DictSet(d, k, v) ==
    IF DictHas(d, k)
    THEN [i \in 1..Len(d) |-> IF d[i].name = k THEN [name |-> k, cls |-> v] ELSE d[i]]
    ELSE Append(d, [name |-> k, cls |-> v])

DictDel(d, k) == SelectSeq(d, LAMBDA e : e.name # k)

DictKeys(d) == [i \in 1..Len(d) |-> d[i].name]

\* parse_model_path without the tests for empty segments
parse_model_path_lenient(model_path) ==
    LET Split(parts) ==
            [err |-> "none", script |-> Strip(parts[1]), class |-> Strip(parts[2])]
    IN  IF ~Contains(model_path, ":")
        THEN [err |-> "ValueError", script |-> <<>>, class |-> <<>>]
        ELSE Split(RSplit1(model_path, ":"))

\* ModelRegistry.parse_model_path
parse_model_path(model_path) ==
    LET Split(parts) ==
            IF Strip(parts[1]) = <<>>
            THEN [err |-> "ValueError", script |-> <<>>, class |-> <<>>]
            ELSE IF Strip(parts[2]) = <<>>
            THEN [err |-> "ValueError", script |-> <<>>, class |-> <<>>]
            ELSE [err |-> "none", script |-> Strip(parts[1]),
                  class |-> Strip(parts[2])]
    IN  IF ~Contains(model_path, ":")
        THEN [err |-> "ValueError", script |-> <<>>, class |-> <<>>]
        ELSE Split(RSplit1(model_path, ":"))

\* load_class_from_script without the test of the file's extension
load_class_from_script_any_file(script_path, class_name, ec) ==
    LET Executed(path, ran) ==
            IF class_name \notin ModuleAttrs(path)
            THEN [err |-> "AttributeError", cls |-> NoneVal, ec |-> ran,
                  probed |-> <<path>>,
                  available |-> available_classes(path, ran[path])]
            ELSE IF ~IsType(ClassObj(path, class_name, ran[path]))
                    \/ ~IsSubclassOfTemplate(ClassObj(path, class_name, ran[path]))
            THEN [err |-> "TypeError", cls |-> NoneVal, ec |-> ran,
                  probed |-> <<path>>, available |-> <<>>]
            ELSE [err |-> "none", cls |-> ClassObj(path, class_name, ran[path]),
                  ec |-> ran, probed |-> <<path>>, available |-> <<>>]
        Load(path) ==
            IF path \notin Files
            THEN [err |-> "FileNotFoundError", cls |-> NoneVal, ec |-> ec,
                  probed |-> <<path>>, available |-> <<>>]
            ELSE Executed(path, [ec EXCEPT ![path] = @ + 1])
    IN  Load(AbsPath(ExpandUser(script_path)))

\* ModelRegistry.load_class_from_script, with ec the executions of each file
\* so far: the outcome, the class returned, the executions afterwards, and
\* the paths handed to os.path.exists
load_class_from_script(script_path, class_name, ec) ==
    LET Executed(path, ran) ==
            IF class_name \notin ModuleAttrs(path)
            THEN [err |-> "AttributeError", cls |-> NoneVal, ec |-> ran,
                  probed |-> <<path>>,
                  available |-> available_classes(path, ran[path])]
            ELSE IF ~IsType(ClassObj(path, class_name, ran[path]))
                    \/ ~IsSubclassOfTemplate(ClassObj(path, class_name, ran[path]))
            THEN [err |-> "TypeError", cls |-> NoneVal, ec |-> ran,
                  probed |-> <<path>>, available |-> <<>>]
            ELSE [err |-> "none", cls |-> ClassObj(path, class_name, ran[path]),
                  ec |-> ran, probed |-> <<path>>, available |-> <<>>]
        Load(path) ==
            IF path \notin Files
            THEN [err |-> "FileNotFoundError", cls |-> NoneVal, ec |-> ec,
                  probed |-> <<path>>, available |-> <<>>]
            ELSE IF ~EndsWith(path, <<".", "p", "y">>)
            THEN [err |-> "ValueError", cls |-> NoneVal, ec |-> ec,
                  probed |-> <<path>>, available |-> <<>>]
            ELSE Executed(path, [ec EXCEPT ![path] = @ + 1])
    IN  Load(AbsPath(ExpandUser(script_path)))

\* ModelRegistry.register_from_path on registry reg
register_from_path(name, model_path, reg, ec) ==
    LET Loaded(loaded) ==
            IF loaded.err # "none"
            THEN [err |-> loaded.err, cls |-> NoneVal, reg |-> reg,
                  ec |-> loaded.ec, probed |-> loaded.probed,
                  available |-> loaded.available]
            ELSE [err |-> "none", cls |-> loaded.cls,
                  reg |-> DictSet(reg, name, loaded.cls),
                  ec |-> loaded.ec, probed |-> loaded.probed,
                  available |-> <<>>]
        Parsed(parsed) ==
            IF parsed.err # "none"
            THEN [err |-> parsed.err, cls |-> NoneVal, reg |-> reg, ec |-> ec,
                  probed |-> <<>>, available |-> <<>>]
            ELSE Loaded(load_class_from_script(parsed.script, parsed.class, ec))
    IN  Parsed(parse_model_path(model_path))

\* register_class storing the value before it tests it
register_class_write_first(name, model_cls, reg) ==
    IF ~IsType(model_cls) \/ ~IsSubclassOfTemplate(model_cls)
    THEN [err |-> "TypeError", reg |-> DictSet(reg, name, model_cls)]
    ELSE [err |-> "none", reg |-> DictSet(reg, name, model_cls)]

\* ModelRegistry.register_class on registry reg
register_class(name, model_cls, reg) ==
    IF ~IsType(model_cls) \/ ~IsSubclassOfTemplate(model_cls)
    THEN [err |-> "TypeError", reg |-> reg]
    ELSE [err |-> "none", reg |-> DictSet(reg, name, model_cls)]

\* ModelRegistry.get
get(name, reg) == DictGet(reg, name)

\* ModelRegistry.list_registered
list_registered(reg) == DictKeys(reg)

\* is_registered never finding the name
is_registered_never(name, reg) == FALSE

\* ModelRegistry.is_registered
is_registered(name, reg) == DictHas(reg, name)

\* unregister dropping every entry when the name is present
unregister_all(name, reg) ==
    IF DictHas(reg, name) THEN [ret |-> TRUE, reg |-> <<>>]
    ELSE [ret |-> FALSE, reg |-> reg]

\* ModelRegistry.unregister: the value returned and the registry afterwards
unregister(name, reg) ==
    IF DictHas(reg, name) THEN [ret |-> TRUE, reg |-> DictDel(reg, name)]
    ELSE [ret |-> FALSE, reg |-> reg]

\* ModelRegistry.clear
clear(reg) == <<>>

---------------------------------------------------------------------------
(* The built-in adapter and its backend *)

GoldenSignalLabels ==
    <<"information", "error", "availability", "latency", "saturation", "traffic">>

FaultCategoryLabels == <<"io", "authentication", "network", "application", "device">>

\* the log texts the model classifies
Texts == {"disk", "login"}

\* The score (in percent) the zero-shot backend gives a label for a text: a
\* deterministic stub, with the fault-category scores of the two texts of the
\* scenario "Disk I/O timeout on node-7" / "User login failed: bad password".
StubScore(text, label) ==
    CASE text = "disk"  /\ label = "io"             -> 90
      [] text = "disk"  /\ label = "device"         -> 20
      [] text = "disk"  /\ label = "error"          -> 70
      [] text = "disk"  /\ label = "latency"        -> 25
      [] text = "login" /\ label = "authentication" -> 95
      [] text = "login" /\ label = "error"          -> 80
      [] text = "login" /\ label = "application"    -> 30
      [] OTHER -> IF label \in {"network", "traffic"} THEN 3
                  ELSE IF label \in {"application", "saturation"} THEN 2
                  ELSE IF label \in {"availability", "authentication"} THEN 1
                  ELSE 0

\* labels with x put before the first label scoring less than x
RECURSIVE InsertByScore(_, _, _)
InsertByScore(text, x, sorted) ==
    IF sorted = <<>> THEN <<x>>
    ELSE IF StubScore(text, x) > StubScore(text, Head(sorted))
         THEN <<x>> \o sorted
         ELSE <<Head(sorted)>> \o InsertByScore(text, x, Tail(sorted))

\* the candidate labels by descending score
RECURSIVE SortByScore(_, _)
SortByScore(text, labels) ==
    IF labels = <<>> THEN <<>>
    ELSE InsertByScore(text, Head(labels), SortByScore(text, Tail(labels)))

\* what the zero-shot pipeline returns for one text: the text and every
\* candidate label with its score, best first
PipeItem(text, candidate_labels) ==
    LET ranked == SortByScore(text, candidate_labels) IN
    [sequence |-> text,
     labels   |-> ranked,
     scores   |-> [i \in 1..Len(ranked) |-> StubScore(text, ranked[i])]]

\* self.pipe(input, candidate_labels, batch_size=batch_size): one item per
\* text; for a single text the pipeline may hand back the item itself (a dict)
\* instead of a list, which asDict says
pipe(input, candidate_labels, batch_size, asDict) ==
    [isDict |-> asDict /\ Len(input) = 1,
     items  |-> [i \in 1..Len(input) |-> PipeItem(input[i], candidate_labels)]]

\* classify_golden_signal without the conversion of a single dict to a list
ZS_classify_golden_signal_raw(input, batch_size, asDict) ==
    pipe(input, GoldenSignalLabels, batch_size, asDict)

\* ModelZeroShotClassifer.classify_golden_signal
ZS_classify_golden_signal(input, batch_size, asDict) ==
    LET results == pipe(input, GoldenSignalLabels, batch_size, asDict) IN
    IF results.isDict THEN [isDict |-> FALSE, items |-> results.items]
    ELSE results

\* ModelZeroShotClassifer.classify_fault_category
ZS_classify_fault_category(input, batch_size, asDict) ==
    LET results == pipe(input, FaultCategoryLabels, batch_size, asDict) IN
    IF results.isDict THEN [isDict |-> FALSE, items |-> results.items]
    ELSE results

\* ZeroShotModels: the value of an enum member
ZeroShotModelValue(member) ==
    IF member = <<"BART">> THEN <<"facebook/bart-large-mnli">>
    ELSE <<"cross-encoder/nli-MiniLM2-L6-H768">>

ZeroShotClass == ClassObj(LoganModule, <<"ModelZeroShotClassifer">>, 0)

\* ModelZeroShotClassifer.__init__: model is [isStr, val], an enum member or a
\* string
ZS_new(model) ==
    [cls |-> ZeroShotClass,
     model |-> IF model.isStr THEN model.val ELSE ZeroShotModelValue(model.val),
     kwargs |-> {}, initCalls |-> 0, classified |-> FALSE]

---------------------------------------------------------------------------
(* ModelManager: pure parts *)

\* width of the model's string hash
HashMod == 32

\* hash(s) of a string under the process's hash seed: a function of the
\* content of s, of bounded width
RECURSIVE HashFrom(_, _, _)
HashFrom(h, s, seed) ==
    IF s = <<>> THEN h
    ELSE HashFrom((h * seed + Code(Head(s))) % HashMod, Tail(s), seed)

Hash(s, seed) == HashFrom(0, s, seed)

\* f"_auto_{hash(model_path)}"
auto_name(model_path, seed) == <<"_auto_", Hash(model_path, seed)>>

\* isinstance(obj, ModelTemplate)
IsInstanceOfTemplate(obj) == IsSubclassOfTemplate(obj.cls)

\* model_cls(kwargs): ABC refuses a class with abstract methods, the
\* constructor refuses keywords it does not take
Instantiate(model_cls, kwargs) ==
    IF AbstractMethods(model_cls) # {} \/ ~(kwargs \subseteq AcceptsKw(model_cls))
    THEN [err |-> "TypeError", obj |-> [cls |-> NoneVal]]
    ELSE [err |-> "none",
          obj |-> [cls |-> model_cls, model |-> <<>>, kwargs |-> kwargs,
                   initCalls |-> 0, classified |-> FALSE]]

\* _create_custom_model taking a pre-built instance without the isinstance check
create_custom_model_unchecked(model_path, custom_model_instance, custom_model_kwargs, reg, ec, os, seed) ==
    LET Made(made, r) ==
            IF made.err # "none"
            THEN [err |-> made.err, obj |-> 0, os |-> os, reg |-> r.reg, ec |-> r.ec]
            ELSE [err |-> "none", obj |-> Len(os) + 1,
                  os |-> Append(os, made.obj), reg |-> r.reg, ec |-> r.ec]
        Registered(name, r) ==
            IF r.err # "none"
            THEN [err |-> r.err, obj |-> 0, os |-> os, reg |-> r.reg, ec |-> r.ec]
            ELSE Made(Instantiate(get(name, r.reg), custom_model_kwargs), r)
        FromPath(name) ==
            Registered(name,
                       IF ~is_registered(name, reg)
                       THEN register_from_path(name, model_path.val, reg, ec)
                       ELSE [err |-> "none", cls |-> NoneVal, reg |-> reg, ec |-> ec,
                             probed |-> <<>>])
    IN  IF custom_model_instance # 0
        THEN [err |-> "none", obj |-> custom_model_instance,
              os |-> os, reg |-> reg, ec |-> ec]
        ELSE IF model_path.isStr
        THEN FromPath(auto_name(model_path.val, seed))
        ELSE [err |-> "ValueError", obj |-> 0, os |-> os, reg |-> reg, ec |-> ec]

\* _create_custom_model trying the path-spec before the pre-built instance
create_custom_model_path_first(model_path, custom_model_instance, custom_model_kwargs, reg, ec, os, seed) ==
    LET Made(made, r) ==
            IF made.err # "none"
            THEN [err |-> made.err, obj |-> 0, os |-> os, reg |-> r.reg, ec |-> r.ec]
            ELSE [err |-> "none", obj |-> Len(os) + 1,
                  os |-> Append(os, made.obj), reg |-> r.reg, ec |-> r.ec]
        Registered(name, r) ==
            IF r.err # "none"
            THEN [err |-> r.err, obj |-> 0, os |-> os, reg |-> r.reg, ec |-> r.ec]
            ELSE Made(Instantiate(get(name, r.reg), custom_model_kwargs), r)
        FromPath(name) ==
            Registered(name,
                       IF ~is_registered(name, reg)
                       THEN register_from_path(name, model_path.val, reg, ec)
                       ELSE [err |-> "none", cls |-> NoneVal, reg |-> reg, ec |-> ec,
                             probed |-> <<>>])
    IN  IF model_path.isStr
        THEN FromPath(auto_name(model_path.val, seed))
        ELSE IF custom_model_instance # 0
        THEN IF ~IsInstanceOfTemplate(os[custom_model_instance])
             THEN [err |-> "TypeError", obj |-> 0, os |-> os, reg |-> reg, ec |-> ec]
             ELSE [err |-> "none", obj |-> custom_model_instance,
                   os |-> os, reg |-> reg, ec |-> ec]
        ELSE [err |-> "ValueError", obj |-> 0, os |-> os, reg |-> reg, ec |-> ec]

\* _create_custom_model building a new instance of the pre-built instance's
\* class from the keyword mapping
create_custom_model_copying(model_path, custom_model_instance, custom_model_kwargs, reg, ec, os, seed) ==
    LET Made(made, r) ==
            IF made.err # "none"
            THEN [err |-> made.err, obj |-> 0, os |-> os, reg |-> r.reg, ec |-> r.ec]
            ELSE [err |-> "none", obj |-> Len(os) + 1,
                  os |-> Append(os, made.obj), reg |-> r.reg, ec |-> r.ec]
        Registered(name, r) ==
            IF r.err # "none"
            THEN [err |-> r.err, obj |-> 0, os |-> os, reg |-> r.reg, ec |-> r.ec]
            ELSE Made(Instantiate(get(name, r.reg), custom_model_kwargs), r)
        FromPath(name) ==
            Registered(name,
                       IF ~is_registered(name, reg)
                       THEN register_from_path(name, model_path.val, reg, ec)
                       ELSE [err |-> "none", cls |-> NoneVal, reg |-> reg, ec |-> ec,
                             probed |-> <<>>])
    IN  IF custom_model_instance # 0
        THEN IF ~IsInstanceOfTemplate(os[custom_model_instance])
             THEN [err |-> "TypeError", obj |-> 0, os |-> os, reg |-> reg, ec |-> ec]
             ELSE [err |-> "none", obj |-> Len(os) + 1,
                   os |-> Append(os, [os[custom_model_instance] EXCEPT
                                         !.kwargs = custom_model_kwargs,
                                         !.initCalls = 0,
                                         !.classified = FALSE]),
                   reg |-> reg, ec |-> ec]
        ELSE IF model_path.isStr
        THEN FromPath(auto_name(model_path.val, seed))
        ELSE [err |-> "ValueError", obj |-> 0, os |-> os, reg |-> reg, ec |-> ec]

\* _create_custom_model handing out the instance it made of the class before
\* when there is one
create_custom_model_reusing(model_path, custom_model_instance, custom_model_kwargs, reg, ec, os, seed) ==
    LET Made(made, r) ==
            IF made.err # "none"
            THEN [err |-> made.err, obj |-> 0, os |-> os, reg |-> r.reg, ec |-> r.ec]
            ELSE IF \E k \in 1..Len(os) : os[k].cls = made.obj.cls
            THEN [err |-> "none",
                  obj |-> CHOOSE k \in 1..Len(os) : os[k].cls = made.obj.cls,
                  os |-> os, reg |-> r.reg, ec |-> r.ec]
            ELSE [err |-> "none", obj |-> Len(os) + 1,
                  os |-> Append(os, made.obj), reg |-> r.reg, ec |-> r.ec]
        Registered(name, r) ==
            IF r.err # "none"
            THEN [err |-> r.err, obj |-> 0, os |-> os, reg |-> r.reg, ec |-> r.ec]
            ELSE Made(Instantiate(get(name, r.reg), custom_model_kwargs), r)
        FromPath(name) ==
            Registered(name,
                       IF ~is_registered(name, reg)
                       THEN register_from_path(name, model_path.val, reg, ec)
                       ELSE [err |-> "none", cls |-> NoneVal, reg |-> reg, ec |-> ec,
                             probed |-> <<>>])
    IN  IF custom_model_instance # 0
        THEN IF ~IsInstanceOfTemplate(os[custom_model_instance])
             THEN [err |-> "TypeError", obj |-> 0, os |-> os, reg |-> reg, ec |-> ec]
             ELSE [err |-> "none", obj |-> custom_model_instance,
                   os |-> os, reg |-> reg, ec |-> ec]
        ELSE IF model_path.isStr
        THEN FromPath(auto_name(model_path.val, seed))
        ELSE [err |-> "ValueError", obj |-> 0, os |-> os, reg |-> reg, ec |-> ec]

\* ModelManager._create_custom_model; model_path is [isStr, val] with isStr
\* false for None, custom_model_instance an index of os or 0 for None.  The
\* outcome: the error, the index of the instance, and the instances, registry
\* and executions afterwards.
create_custom_model(model_path, custom_model_instance, custom_model_kwargs, reg, ec, os, seed) ==
    LET Made(made, r) ==
            IF made.err # "none"
            THEN [err |-> made.err, obj |-> 0, os |-> os, reg |-> r.reg, ec |-> r.ec]
            ELSE [err |-> "none", obj |-> Len(os) + 1,
                  os |-> Append(os, made.obj), reg |-> r.reg, ec |-> r.ec]
        Registered(name, r) ==
            IF r.err # "none"
            THEN [err |-> r.err, obj |-> 0, os |-> os, reg |-> r.reg, ec |-> r.ec]
            ELSE Made(Instantiate(get(name, r.reg), custom_model_kwargs), r)
        FromPath(name) ==
            Registered(name,
                       IF ~is_registered(name, reg)
                       THEN register_from_path(name, model_path.val, reg, ec)
                       ELSE [err |-> "none", cls |-> NoneVal, reg |-> reg, ec |-> ec,
                             probed |-> <<>>])
    IN  IF custom_model_instance # 0
        THEN IF ~IsInstanceOfTemplate(os[custom_model_instance])
             THEN [err |-> "TypeError", obj |-> 0, os |-> os, reg |-> reg, ec |-> ec]
             ELSE [err |-> "none", obj |-> custom_model_instance,
                   os |-> os, reg |-> reg, ec |-> ec]
        ELSE IF model_path.isStr
        THEN FromPath(auto_name(model_path.val, seed))
        ELSE [err |-> "ValueError", obj |-> 0, os |-> os, reg |-> reg, ec |-> ec]

\* self.model.init_model(): the instance has been initialised once more
init_model(os, o) == [os EXCEPT ![o].initCalls = @ + 1]

\* __init__ serving the similarity type with the built-in classifier
resolve_model_fallback(type, model, custom_model_instance, custom_model_kwargs, reg, ec, os, seed) ==
    IF type = "zero_shot" \/ type = "similarity"
    THEN [err |-> "none", obj |-> Len(os) + 1, os |-> Append(os, ZS_new(model)),
          reg |-> reg, ec |-> ec]
    ELSE IF type = "custom"
    THEN create_custom_model(IF model.isStr THEN model ELSE [isStr |-> FALSE, val |-> <<>>],
                             custom_model_instance, custom_model_kwargs,
                             reg, ec, os, seed)
    ELSE [err |-> "ValueError", obj |-> 0, os |-> os, reg |-> reg, ec |-> ec]

\* ModelManager.__init__ up to the choice of self.model
resolve_model(type, model, custom_model_instance, custom_model_kwargs, reg, ec, os, seed) ==
    IF type = "zero_shot"
    THEN [err |-> "none", obj |-> Len(os) + 1, os |-> Append(os, ZS_new(model)),
          reg |-> reg, ec |-> ec]
    ELSE IF type = "similarity"
    THEN [err |-> "NotImplementedError", obj |-> 0, os |-> os, reg |-> reg, ec |-> ec]
    ELSE IF type = "custom"
    THEN create_custom_model(IF model.isStr THEN model ELSE [isStr |-> FALSE, val |-> <<>>],
                             custom_model_instance, custom_model_kwargs,
                             reg, ec, os, seed)
    ELSE [err |-> "ValueError", obj |-> 0, os |-> os, reg |-> reg, ec |-> ec]

\* the constructor calling init_model a second time after it raised and
\* handing out the Manager when the second call returns
manager_init_retry(type, model, custom_model_instance, custom_model_kwargs, initOk, reg, ec, os, mgrs, seed) ==
    LET Resolved(r) ==
            IF r.err # "none"
            THEN [err |-> r.err, obj |-> 0, inits |-> 0, os |-> r.os, reg |-> r.reg,
                  ec |-> r.ec, mgrs |-> mgrs]
            ELSE [err |-> "none", obj |-> r.obj,
                  inits |-> IF initOk THEN 1 ELSE 2,
                  os |-> IF initOk THEN init_model(r.os, r.obj)
                         ELSE init_model(init_model(r.os, r.obj), r.obj),
                  reg |-> r.reg, ec |-> r.ec,
                  mgrs |-> Append(mgrs, [model |-> r.obj])]
    IN  Resolved(resolve_model(type, model, custom_model_instance,
                               custom_model_kwargs, reg, ec, os, seed))

\* ModelManager.__init__: resolve self.model, then call its init_model, which
\* fails when initOk is false.  mgrs are the Managers constructed so far; inits
\* counts the init_model calls made.  When init_model fails the exception
\* leaves __init__: no Manager exists, and an instance that __init__ created
\* itself is referenced by nothing and is gone.
manager_init(type, model, custom_model_instance, custom_model_kwargs, initOk, reg, ec, os, mgrs, seed) ==
    LET Resolved(r) ==
            IF r.err # "none"
            THEN [err |-> r.err, obj |-> 0, inits |-> 0, os |-> r.os, reg |-> r.reg,
                  ec |-> r.ec, mgrs |-> mgrs]
            ELSE IF ~initOk
            THEN [err |-> "BackendFailure", obj |-> 0, inits |-> 1,
                  os |-> IF r.obj > Len(os) THEN os ELSE init_model(r.os, r.obj),
                  reg |-> r.reg, ec |-> r.ec, mgrs |-> mgrs]
            ELSE [err |-> "none", obj |-> r.obj, inits |-> 1,
                  os |-> init_model(r.os, r.obj),
                  reg |-> r.reg, ec |-> r.ec,
                  mgrs |-> Append(mgrs, [model |-> r.obj])]
    IN  Resolved(resolve_model(type, model, custom_model_instance,
                               custom_model_kwargs, reg, ec, os, seed))

\* what a custom backend returns for a classify call: one item per text,
\* telling which instance answered which operation with which batch_size
CustomResult(o, op, input, batch_size) ==
    [isDict |-> FALSE,
     items  |-> [i \in 1..Len(input) |->
                    [sequence |-> input[i], labels |-> <<op>>,
                     scores |-> <<o, batch_size>>]]]

\* one call of a backend operation: the instance, the operation, the
\* arguments it received and what it returned
BackendCall(o, op, input, batch_size, ret) ==
    [obj |-> o, op |-> op, input |-> input, batch_size |-> batch_size,
     ret |-> ret]

\* what a call has when the operation raised instead of returning
NoResult == [isDict |-> FALSE, items |-> <<>>]

\* self.model.classify_golden_signal(input, batch_size) on instance o, which
\* raises when ok is false: the error, the value returned, the instances
\* afterwards, and the backend calls made
obj_classify_golden_signal(os, o, input, batch_size, asDict, ok) ==
    LET Returned(err, ret) ==
            [err |-> err, ret |-> ret,
             os  |-> [os EXCEPT ![o].classified = TRUE],
             calls |-> <<BackendCall(o, "classify_golden_signal", input,
                                     batch_size, [err |-> err, val |-> ret])>>]
    IN  IF ~ok THEN Returned("BackendFailure", NoResult)
        ELSE Returned("none",
                      IF os[o].cls = ZeroShotClass
                      THEN ZS_classify_golden_signal(input, batch_size, asDict)
                      ELSE CustomResult(o, "classify_golden_signal", input,
                                        batch_size))

\* self.model.classify_fault_category(input, batch_size) on instance o
obj_classify_fault_category(os, o, input, batch_size, asDict, ok) ==
    LET Returned(err, ret) ==
            [err |-> err, ret |-> ret,
             os  |-> [os EXCEPT ![o].classified = TRUE],
             calls |-> <<BackendCall(o, "classify_fault_category", input,
                                     batch_size, [err |-> err, val |-> ret])>>]
    IN  IF ~ok THEN Returned("BackendFailure", NoResult)
        ELSE Returned("none",
                      IF os[o].cls = ZeroShotClass
                      THEN ZS_classify_fault_category(input, batch_size, asDict)
                      ELSE CustomResult(o, "classify_fault_category", input,
                                        batch_size))

\* classify_golden_signal initialising the backend again before delegating
manager_classify_golden_signal_reinit(mgr, input, batch_size, asDict, ok, os) ==
    obj_classify_golden_signal(init_model(os, mgr.model), mgr.model,
                               input, batch_size, asDict, ok)

\* ModelManager.classify_golden_signal of Manager mgr
manager_classify_golden_signal(mgr, input, batch_size, asDict, ok, os) ==
    obj_classify_golden_signal(os, mgr.model, input, batch_size, asDict, ok)

\* classify_fault_category calling the backend a second time
manager_classify_fault_category_twice(mgr, input, batch_size, asDict, ok, os) ==
    LET Again(first, second) ==
            [err |-> second.err, ret |-> second.ret, os |-> second.os,
             calls |-> first.calls \o second.calls]
    IN  Again(obj_classify_fault_category(os, mgr.model, input, batch_size,
                                          asDict, ok),
              obj_classify_fault_category(os, mgr.model, input, batch_size,
                                          asDict, ok))

\* ModelManager.classify_fault_category of Manager mgr
manager_classify_fault_category(mgr, input, batch_size, asDict, ok, os) ==
    obj_classify_fault_category(os, mgr.model, input, batch_size, asDict, ok)

---------------------------------------------------------------------------
(* The process: its state and the calls made on it *)

VARIABLES
    hashSeed,   \* the process's string-hash seed, fixed at start
    registry,   \* ModelRegistry._registry
    execCount,  \* per script file, how often its top-level code has run
    objs,       \* the backend instances that exist, by identity
    managers,   \* the ModelManagers constructed, each with its self.model
    last,       \* the last call made: its arguments and its outcome
    lastReg,    \* per name, the class of the last successful registration
                \* not unregistered or cleared since (NoneVal if none)
    cached,     \* per path-spec, the class the last Manager constructed from
                \* it instantiated, if no unregister/clear happened since
    threads     \* per thread of the process, where it stands in a Manager
                \* construction or a register_from_path call, and its locals

vars ==
    <<hashSeed, registry, execCount, objs, managers, last, lastReg, cached,
      threads>>

\* the threads of the process that construct and register concurrently
Threads == {1, 2}

\* a thread that is in neither call
Idle == [pc |-> "idle", kind |-> "none", name |-> <<>>, kwargs |-> {},
         cls |-> NoneVal, err |-> "none"]

\* the seeds the process may start with
HashSeeds == {3, 2}

\* path-spec strings the caller uses
SpecAG    == <<"a", ".", "p", "y", ":", "G">>
SpecDotAG == <<".", "/", "a", ".", "p", "y", ":", "G">>
SpecAP    == <<"a", ".", "p", "y", ":", "P">>
SpecBG    == <<"b", ".", "p", "y", ":", "G">>
SpecAM    == <<"a", ".", "p", "y", ":", "M">>
SpecNoSep == <<"a", ".", "p", "y">>
SpecMG    == <<"m", ".", "p", "y", ":", "G">>
SpecCG    == <<"c", ".", "t", "x", "t", ":", "G">>
SpecMT    == <<"m", ".", "t", "x", "t", ":", "G">>
SpecNoScript == <<" ", ":", "G">>
SpecNoClass  == <<"a", ".", "p", "y", ":", " ">>
SpecDrive    == <<" ", "c", ":", "/", "a", ".", "p", "y", " ", ":", " ", "G">>

ModelPaths ==
    {SpecAG, SpecDotAG, SpecAP, SpecBG, SpecAM, SpecNoSep, SpecMG, SpecCG,
     SpecMT, SpecNoScript, SpecNoClass, SpecDrive}

\* the path-specs the caller registers itself
RegPaths == {SpecAG, SpecDotAG, SpecAP, SpecAM, SpecNoSep}

\* the Manager's model argument is [isStr, val]: a ZeroShotModels member or a
\* string
KwargSets == {{}, {"threshold"}}

EnumBART  == [isStr |-> FALSE, val |-> <<"BART">>]
EnumCROSS == [isStr |-> FALSE, val |-> <<"CROSSENCODER">>]
Str(p)    == [isStr |-> TRUE, val |-> p]

\* the path-specs Managers are constructed from
ManagerPaths == {SpecAG, SpecBG}

CArgs(type, model, inst, kwargs) ==
    [type |-> type, model |-> model, inst |-> inst, kwargs |-> kwargs]

\* constructions in path-spec mode, with and without constructor keywords
PathArgs ==
    {CArgs("custom", Str(SpecAG), 0, kw) : kw \in KwargSets}
    \cup {CArgs("custom", Str(p), 0, {}) : p \in ManagerPaths \ {SpecAG}}

\* constructions of every kind: built-in, unimplemented and unknown types,
\* the pre-built instances 1..3, no option at all, both options, a path-spec
ManagerArgs ==
    {CArgs("zero_shot", EnumCROSS, 0, {}),
     CArgs("zero_shot", EnumCROSS, 1, {}),
     CArgs("similarity", EnumCROSS, 0, {}),
     CArgs("similarity", Str(SpecAG), 1, {"threshold"}),
     CArgs("other", EnumCROSS, 0, {}),
     CArgs("custom", Str(SpecAG), 1, {}),
     CArgs("custom", Str(SpecAG), 0, {"threshold"}),
     CArgs("custom", Str(SpecBG), 0, {"threshold"})}
    \cup {CArgs("custom", EnumCROSS, i, {}) : i \in 0..3}

\* built-in constructions
BuiltinArgs == {CArgs("zero_shot", EnumCROSS, 0, {})}

\* the instances the caller built itself: of its classes G, D and L
Prebuilt ==
    <<[cls |-> ClassObj(MainModule, <<"G">>, 0), model |-> <<>>, kwargs |-> {},
       initCalls |-> 0, classified |-> FALSE],
      [cls |-> ClassObj(MainModule, <<"D">>, 0), model |-> <<>>, kwargs |-> {},
       initCalls |-> 0, classified |-> FALSE],
      [cls |-> ClassObj(MainModule, <<"L">>, 0), model |-> <<>>, kwargs |-> {},
       initCalls |-> 0, classified |-> FALSE]>>

\* what the caller passes to register_class
CallerValues == {ClassObj(MainModule, n, 0) : n \in ModuleAttrs(MainModule)}

\* the names the caller registers under: its own, and the name a Manager
\* derives for a path-spec
RegNames == {<<"x">>, auto_name(SpecAG, hashSeed)}

AllNames == {<<"x">>} \cup {auto_name(p, s) : p \in ModelPaths, s \in HashSeeds}

BatchSizes == {1, 32}

\* sequences of 1..n texts
TextSeqs(n) == UNION {[1..k -> Texts] : k \in 1..n}

\* whether the pipeline hands back a dict: possible for a single text only
SingleShapes(input) == IF Len(input) = 1 THEN BOOLEAN ELSE {FALSE}

Init ==
    /\ hashSeed \in HashSeeds
    /\ registry = <<>>
    /\ execCount = [f \in Files |-> 0]
    /\ objs = Prebuilt
    /\ managers = <<>>
    /\ last = [op |-> "start", err |-> "none"]
    /\ lastReg = [n \in AllNames |-> NoneVal]
    /\ cached = [p \in ModelPaths |-> NoneVal]
    /\ threads = [t \in Threads |-> Idle]

WithinExec(ec) == \A f \in Files : ec[f] <= MaxExec

\* register_from_path building and initialising an instance of the class it
\* registered
RegisterFromPath_instantiating(name, model_path) ==
    \E r \in {register_from_path(name, model_path, registry, execCount)} :
    \E made \in {Instantiate(r.cls, {})} :
    /\ WithinExec(r.ec)
    /\ registry' = r.reg
    /\ execCount' = r.ec
    /\ objs' = IF r.err = "none" /\ made.err = "none"
               THEN init_model(Append(objs, made.obj), Len(objs) + 1) ELSE objs
    /\ last' = [op |-> "register_from_path", err |-> r.err, probed |-> r.probed,
                available |-> r.available]
    /\ lastReg' = IF r.err = "none" THEN [lastReg EXCEPT ![name] = r.cls] ELSE lastReg
    /\ UNCHANGED <<threads, hashSeed, managers, cached>>

RegisterFromPath(name, model_path) ==
    \E r \in {register_from_path(name, model_path, registry, execCount)} :
    /\ WithinExec(r.ec)
    /\ registry' = r.reg
    /\ execCount' = r.ec
    /\ last' = [op |-> "register_from_path", err |-> r.err, probed |-> r.probed,
                available |-> r.available]
    /\ lastReg' = IF r.err = "none" THEN [lastReg EXCEPT ![name] = r.cls] ELSE lastReg
    /\ UNCHANGED <<threads, hashSeed, objs, managers, cached>>

RegisterClass(name, model_cls) ==
    \E r \in {register_class(name, model_cls, registry)} :
    /\ registry' = r.reg
    /\ last' = [op |-> "register_class", err |-> r.err]
    /\ lastReg' = IF r.err = "none" THEN [lastReg EXCEPT ![name] = model_cls]
                  ELSE lastReg
    /\ UNCHANGED <<threads, hashSeed, execCount, objs, managers, cached>>

Unregister(name) ==
    \E r \in {unregister(name, registry)} :
    /\ registry' = r.reg
    /\ last' = [op |-> "unregister", err |-> "none", name |-> name, ret |-> r.ret]
    /\ lastReg' = [lastReg EXCEPT ![name] = NoneVal]
    /\ cached' = [p \in ModelPaths |-> NoneVal]
    /\ UNCHANGED <<threads, hashSeed, execCount, objs, managers>>

Clear ==
    /\ registry' = clear(registry)
    /\ last' = [op |-> "clear", err |-> "none"]
    /\ lastReg' = [n \in AllNames |-> NoneVal]
    /\ cached' = [p \in ModelPaths |-> NoneVal]
    /\ UNCHANGED <<threads, hashSeed, execCount, objs, managers>>

\* ModelRegistry.get(name)
Get(name) ==
    /\ last' = [op |-> "get", err |-> "none", name |-> name,
                ret |-> get(name, registry)]
    /\ UNCHANGED <<threads, hashSeed, registry, execCount, objs, managers, lastReg, cached>>

\* ModelRegistry.is_registered(name)
IsRegistered(name) ==
    /\ last' = [op |-> "is_registered", err |-> "none", name |-> name,
                ret |-> is_registered(name, registry)]
    /\ UNCHANGED <<threads, hashSeed, registry, execCount, objs, managers, lastReg, cached>>

\* ModelRegistry.list_registered()
ListRegistered ==
    /\ last' = [op |-> "list_registered", err |-> "none",
                ret |-> list_registered(registry)]
    /\ UNCHANGED <<threads, hashSeed, registry, execCount, objs, managers, lastReg, cached>>

\* ModelManager(type, model, custom_model_instance, custom_model_kwargs)
Construct(type, model, inst, kwargs, initOk) ==
    \E r \in {manager_init(type, model, inst, kwargs, initOk,
                           registry, execCount, objs, managers, hashSeed)},
       byPath \in {type = "custom" /\ inst = 0 /\ model.isStr} :
    /\ Len(managers) < MaxManagers
    /\ \A o \in 1..Len(r.os) : r.os[o].initCalls <= MaxManagers
    /\ WithinExec(r.ec)
    /\ registry' = r.reg
    /\ execCount' = r.ec
    /\ objs' = r.os
    /\ managers' = r.mgrs
    /\ last' = [op |-> "ModelManager", err |-> r.err, type |-> type, model |-> model,
                inst |-> inst, kwargs |-> kwargs, obj |-> r.obj,
                inits |-> r.inits]
    /\ lastReg' = IF byPath /\ r.reg # registry
                  THEN [lastReg EXCEPT ![auto_name(model.val, hashSeed)] =
                           r.reg[Len(r.reg)].cls]
                  ELSE lastReg
    /\ cached' = IF byPath /\ r.err = "none"
                 THEN [cached EXCEPT ![model.val] = r.os[r.obj].cls] ELSE cached
    /\ UNCHANGED <<threads, hashSeed>>

\* manager.classify_golden_signal(input, batch_size); the backend returns
\* a dict when asDict, and raises when ok is false
ClassifyGoldenSignal(m, input, batch_size, asDict, ok) ==
    \E r \in {manager_classify_golden_signal(managers[m], input, batch_size,
                                             asDict, ok, objs)} :
    /\ objs' = r.os
    /\ last' = [op |-> "classify_golden_signal", err |-> r.err, mgr |-> m,
                input |-> input, batch_size |-> batch_size, asDict |-> asDict,
                ret |-> r.ret, calls |-> r.calls]
    /\ UNCHANGED <<threads, hashSeed, registry, execCount, managers, lastReg, cached>>

\* manager.classify_fault_category(input, batch_size)
ClassifyFaultCategory(m, input, batch_size, asDict, ok) ==
    \E r \in {manager_classify_fault_category(managers[m], input, batch_size,
                                              asDict, ok, objs)} :
    /\ objs' = r.os
    /\ last' = [op |-> "classify_fault_category", err |-> r.err, mgr |-> m,
                input |-> input, batch_size |-> batch_size, asDict |-> asDict,
                ret |-> r.ret, calls |-> r.calls]
    /\ UNCHANGED <<threads, hashSeed, registry, execCount, managers, lastReg, cached>>

\* the registry: the caller's registry calls and Managers constructed in
\* path-spec mode
Next ==
    \/ \E n \in RegNames, p \in RegPaths : RegisterFromPath(n, p)
    \/ \E n \in RegNames, c \in CallerValues : RegisterClass(n, c)
    \/ \E n \in RegNames : Unregister(n)
    \/ Clear
    \/ \E a \in PathArgs : Construct(a.type, a.model, a.inst, a.kwargs, TRUE)

Spec == Init /\ [][Next]_vars

\* the registry alone: the caller's registry calls
NextRegistry ==
    \/ \E n \in RegNames, p \in ModelPaths : RegisterFromPath(n, p)
    \/ \E n \in RegNames, c \in CallerValues : RegisterClass(n, c)
    \/ \E n \in RegNames : Unregister(n)
    \/ Clear

SpecRegistry == Init /\ [][NextRegistry]_vars

\* the Manager: constructions of every kind and the classify calls on them
NextManager ==
    \/ \E a \in ManagerArgs, ok \in BOOLEAN :
          Construct(a.type, a.model, a.inst, a.kwargs, ok)
    \/ \E m \in 1..Len(managers), b \in BatchSizes :
          ClassifyGoldenSignal(m, <<"disk">>, b, FALSE, TRUE)
    \/ \E m \in 1..Len(managers), b \in BatchSizes :
          ClassifyFaultCategory(m, <<"login">>, b, FALSE, TRUE)

SpecManager == Init /\ [][NextManager]_vars

\* the built-in adapter: Managers of the built-in type classifying sequences
\* of texts, and classify calls on one text in which the backend raises
NextClassify ==
    \/ \E a \in BuiltinArgs, ok \in BOOLEAN :
          Construct(a.type, a.model, a.inst, a.kwargs, ok)
    \/ \E m \in 1..Len(managers), t \in TextSeqs(MaxTexts), b \in BatchSizes :
          \E d \in SingleShapes(t) : ClassifyGoldenSignal(m, t, b, d, TRUE)
    \/ \E m \in 1..Len(managers), t \in TextSeqs(MaxTexts), b \in BatchSizes :
          \E d \in SingleShapes(t) : ClassifyFaultCategory(m, t, b, d, TRUE)
    \/ \E m \in 1..Len(managers), t \in TextSeqs(1) :
          ClassifyGoldenSignal(m, t, 32, FALSE, FALSE)
    \/ \E m \in 1..Len(managers), t \in TextSeqs(1) :
          ClassifyFaultCategory(m, t, 32, FALSE, FALSE)

SpecClassify == Init /\ [][NextClassify]_vars

\* constructions from a pre-built instance and from a path-spec
LayerArgs ==
    {CArgs("custom", EnumCROSS, 1, {}),
     CArgs("custom", Str(SpecAG), 0, {})}

\* the whole layer on few inputs: every operation of the registry, Managers
\* from a pre-built instance and from a path-spec, and a classify call on them
NextLayer ==
    \/ RegisterFromPath(auto_name(SpecAG, hashSeed), SpecAG)
    \/ RegisterClass(<<"x">>, ClassObj(MainModule, <<"G">>, 0))
    \/ \E n \in RegNames : Unregister(n)
    \/ Clear
    \/ Get(<<"x">>)
    \/ IsRegistered(<<"x">>)
    \/ ListRegistered
    \/ \E a \in LayerArgs : Construct(a.type, a.model, a.inst, a.kwargs, TRUE)
    \/ \E m \in 1..Len(managers) :
          ClassifyGoldenSignal(m, <<"disk">>, 32, FALSE, TRUE)

SpecLayer == Init /\ [][NextLayer]_vars

\* the registry alone, with its queries: a path-spec that loads, one whose
\* class is missing, one without separator and one with two separators
QueryPaths == {SpecAG, SpecAM, SpecNoSep, SpecDrive}

NextQueries ==
    \/ \E n \in RegNames, p \in QueryPaths : RegisterFromPath(n, p)
    \/ \E n \in RegNames, c \in CallerValues : RegisterClass(n, c)
    \/ \E n \in RegNames : Unregister(n)
    \/ Clear
    \/ \E n \in RegNames : Get(n)
    \/ \E n \in RegNames : IsRegistered(n)
    \/ ListRegistered

SpecQueries == Init /\ [][NextQueries]_vars

\* constructions that take the backend as it is given, between constructions
\* from a path-spec and registry calls
DirectCalls ==
    {CArgs("zero_shot", EnumCROSS, 0, {}),
     CArgs("zero_shot", Str(SpecAG), 1, {"threshold"}),
     CArgs("custom", Str(SpecAG), 1, {}),
     CArgs("custom", EnumCROSS, 1, {"threshold"}),
     CArgs("custom", EnumCROSS, 2, {}),
     CArgs("custom", Str(SpecAG), 0, {})}

NextDirect ==
    \/ \E a \in DirectCalls, ok \in BOOLEAN :
          Construct(a.type, a.model, a.inst, a.kwargs, ok)
    \/ RegisterClass(auto_name(SpecAG, hashSeed), ClassObj(MainModule, <<"P">>, 0))
    \/ RegisterFromPath(auto_name(SpecAG, hashSeed), SpecAG)
    \/ Clear

SpecDirect == Init /\ [][NextDirect]_vars

\* thread t enters ModelManager(CUSTOM, model) in path-spec mode, where it
\* derives the generated name, or ModelRegistry.register_from_path(name, model)
ThreadStart(t, kind, model_path, kwargs) ==
    /\ threads[t].pc = "idle"
    /\ threads' = [threads EXCEPT ![t] =
                      [pc |-> IF kind = "construct" THEN "check" ELSE "load",
                       kind |-> kind, name |-> auto_name(model_path, hashSeed),
                       kwargs |-> kwargs, cls |-> NoneVal, err |-> "none"]]
    /\ UNCHANGED <<hashSeed, registry, execCount, objs, managers, last, lastReg,
                   cached>>

\* thread t tests ModelRegistry.is_registered(auto_name)
ThreadCheck(t) ==
    /\ threads[t].pc = "check"
    /\ threads' = [threads EXCEPT ![t].pc =
                      IF is_registered(threads[t].name, registry)
                      THEN "get" ELSE "load"]
    /\ UNCHANGED <<hashSeed, registry, execCount, objs, managers, last, lastReg,
                   cached>>

\* thread t parses the path-spec and loads the class, inside
\* register_from_path and before its registry write
ThreadLoad(t, model_path) ==
    \E parsed \in {parse_model_path(model_path)} :
    \E r \in {IF parsed.err # "none"
               THEN [err |-> parsed.err, cls |-> NoneVal, ec |-> execCount]
               ELSE load_class_from_script(parsed.script, parsed.class,
                                           execCount)} :
    /\ threads[t].pc = "load"
    /\ WithinExec(r.ec)
    /\ execCount' = r.ec
    /\ threads' = [threads EXCEPT ![t].pc = IF r.err = "none" THEN "write"
                                            ELSE "done",
                                  ![t].cls = r.cls, ![t].err = r.err]
    /\ UNCHANGED <<hashSeed, registry, objs, managers, last, lastReg, cached>>

\* thread t stores the class it loaded: cls._registry[name] = model_cls
ThreadWrite(t) ==
    /\ threads[t].pc = "write"
    /\ registry' = DictSet(registry, threads[t].name, threads[t].cls)
    /\ threads' = [threads EXCEPT ![t].pc = IF threads[t].kind = "construct"
                                            THEN "get" ELSE "done"]
    /\ UNCHANGED <<hashSeed, execCount, objs, managers, last, lastReg, cached>>

\* thread t fetches the registered class, instantiates it, initialises the
\* instance and has its Manager
ThreadFinish(t) ==
    \E made \in {Instantiate(get(threads[t].name, registry),
                              threads[t].kwargs)} :
    /\ threads[t].pc = "get"
    /\ Len(managers) < MaxManagers
    /\ objs' = IF made.err # "none" THEN objs
               ELSE init_model(Append(objs, made.obj), Len(objs) + 1)
    /\ managers' = IF made.err # "none" THEN managers
                   ELSE Append(managers, [model |-> Len(objs) + 1])
    /\ threads' = [threads EXCEPT ![t].pc = "done", ![t].err = made.err]
    /\ UNCHANGED <<hashSeed, registry, execCount, last, lastReg, cached>>

\* two threads of one process, each constructing a Manager from the same
\* path-spec or registering it under the generated name, interleaved at the
\* is-registered check, the script load and the registry write
NextThreads ==
    \/ \E t \in Threads, kind \in {"construct", "register"}, kw \in KwargSets :
          ThreadStart(t, kind, SpecAG, kw)
    \/ \E t \in Threads : ThreadCheck(t)
    \/ \E t \in Threads : ThreadLoad(t, SpecAG)
    \/ \E t \in Threads : ThreadWrite(t)
    \/ \E t \in Threads : ThreadFinish(t)

SpecThreads == Init /\ [][NextThreads]_vars

---------------------------------------------------------------------------
(* The properties *)

ClassifyOps == {"classify_golden_signal", "classify_fault_category"}

\* what a step that constructs a Manager, or that classifies, does to the
\* initialisation counts
C1_Step ==
    /\ Len(managers') = Len(managers) + 1 =>
          LET o == managers'[Len(managers')].model IN
          /\ last'.inits = 1
          /\ objs'[o].initCalls =
                (IF o <= Len(objs) THEN objs[o].initCalls ELSE 0) + 1
          /\ \A k \in 1..Len(objs) :
                k # o => objs'[k].initCalls = objs[k].initCalls
          /\ objs'[o].classified => (o <= Len(objs) /\ objs[o].classified)
    /\ last'.op \in ClassifyOps =>
          /\ managers' = managers
          /\ Len(objs') = Len(objs)
          /\ objs[managers[last'.mgr].model].initCalls >= 1
          /\ \A k \in 1..Len(objs) : objs'[k].initCalls = objs[k].initCalls

\* C1: constructing a Manager calls init_model on its backend exactly once,
\* before the constructor returns: the backend of every Manager has been
\* initialised, a backend the Manager created itself exactly once, the step
\* that adds a Manager raises its backend's count by exactly one, and a
\* classify call finds the backend initialised and initialises nothing.
C1_InitOnceBeforeClassify ==
    /\ [](\A m \in 1..Len(managers) : objs[managers[m].model].initCalls >= 1)
    /\ [](\A o \in (Len(Prebuilt) + 1)..Len(objs) : objs[o].initCalls = 1)
    /\ [][C1_Step]_vars

\* a Manager has classified with a backend that was initialised once
C1_Witness ==
    /\ last.op \in ClassifyOps
    /\ objs[managers[last.mgr].model].classified
    /\ objs[managers[last.mgr].model].initCalls = 1

\* C2: within one process each script file is executed at most once,
\* whatever registry names or path-spec spellings refer to it.
C2_ExecutedAtMostOnce == \A f \in Files : execCount[f] <= 1

\* C3: a Manager constructed from a path-spec from which a Manager was
\* constructed before, with no unregister or clear since, executes no script,
\* registers nothing, and instantiates the type the earlier construction
\* used, with its own keyword arguments.
C3_Step ==
    \A p \in ManagerPaths :
        (/\ cached[p] # NoneVal
         /\ Len(managers') = Len(managers) + 1
         /\ last'.model = Str(p))
        => /\ execCount' = execCount
           /\ registry' = registry
           /\ objs'[last'.obj].cls = cached[p]
           /\ objs'[last'.obj].kwargs = last'.kwargs

C3_LaterConstructionsReuse == [][C3_Step]_vars

\* C4: every type in the registry implements the three operations of the
\* contract.
C4_RegisteredTypesConform ==
    \A i \in 1..Len(registry) : Implements(registry[i].cls) = ContractOps

\* the pre-built instances that lack an operation of the contract
NonConforming ==
    {o \in 1..Len(Prebuilt) : Implements(Prebuilt[o].cls) # ContractOps}

\* C5: a Manager constructed in custom mode from a pre-built instance that
\* lacks an operation of the contract fails with TypeError; the instance is
\* never initialised, never classifies and never becomes a Manager's backend.
C5_NonConformingInstanceRejected ==
    /\ \A o \in NonConforming :
          /\ objs[o] = Prebuilt[o]
          /\ \A m \in 1..Len(managers) : managers[m].model # o
    /\ (last.op = "ModelManager" /\ last.type = "custom"
            /\ last.inst \in NonConforming)
       => (last.err = "TypeError" /\ last.inits = 0 /\ last.obj = 0)

\* the construction from the instance lacking an operation has been refused
C5_Witness ==
    /\ last.op = "ModelManager"
    /\ last.type = "custom"
    /\ last.inst \in NonConforming
    /\ last.err = "TypeError"

\* C6: each item of a golden-signal result of the built-in classifier holds
\* exactly one label, the one of the highest score, and exactly one score.
C6_GoldenSignalSingleLabel ==
    last.op = "classify_golden_signal" =>
        \A i \in 1..Len(last.ret.items) :
            LET item == last.ret.items[i]
                full == PipeItem(last.input[i], GoldenSignalLabels) IN
            /\ item.labels = <<full.labels[1]>>
            /\ item.scores = <<full.scores[1]>>

\* the fault-category threshold, in hundredths
FaultThreshold == 30

\* the positions of scores that reach FaultThreshold
AboveThreshold(scores) == {j \in 1..Len(scores) : scores[j] >= FaultThreshold}

\* C7: each item of a fault-category result of the built-in classifier holds
\* exactly the labels whose score reaches the threshold, possibly none, in
\* descending order of score.
C7_FaultCategoryThresholded ==
    last.op = "classify_fault_category" =>
        \A i \in 1..Len(last.ret.items) :
            LET item == last.ret.items[i]
                full == PipeItem(last.input[i], FaultCategoryLabels)
                keep == AboveThreshold(full.scores) IN
            /\ Len(item.labels) = Cardinality(keep)
            /\ Len(item.scores) = Cardinality(keep)
            /\ \A j \in 1..Len(item.scores) : item.scores[j] >= FaultThreshold

\* the labels a classify operation of the built-in classifier ranks
CandidateLabels(op) ==
    IF op = "classify_golden_signal" THEN GoldenSignalLabels
    ELSE FaultCategoryLabels

\* C8: a classify call of the built-in classifier on n texts that returns,
\* returns a list of n items, the i-th being the result for the i-th text,
\* also when n = 1 and the pipeline hands back a single dict.
C8_OneItemPerText ==
    (last.op \in ClassifyOps /\ last.err = "none") =>
        /\ ~last.ret.isDict
        /\ Len(last.ret.items) = Len(last.input)
        /\ \A i \in 1..Len(last.input) :
              /\ last.ret.items[i].sequence = last.input[i]
              /\ last.ret.items[i] =
                    PipeItem(last.input[i], CandidateLabels(last.op))

\* one text was classified, the pipeline handed back a dict, and the caller
\* received a list of one item
C8_Witness ==
    /\ last.op = "classify_golden_signal"
    /\ last.err = "none"
    /\ Len(last.input) = 1
    /\ last.asDict
    /\ ~last.ret.isDict
    /\ Len(last.ret.items) = 1

\* C10: get(name) returns the type of the most recent successful
\* registration under name that was not unregistered or cleared since, and
\* the registry never holds two entries of one name.
C10_LastWriteWins ==
    /\ \A n \in AllNames : get(n, registry) = lastReg[n]
    /\ \A i, j \in 1..Len(registry) :
          registry[i].name = registry[j].name => i = j
    /\ \A i \in 1..Len(registry) : registry[i].name \in AllNames

\* the name x, registered before the derived name, has been registered again:
\* it holds the class of the second execution of a.py at its old place
C10_Witness ==
    /\ Len(registry) = 2
    /\ registry[1] = [name |-> <<"x">>, cls |-> ClassObj(PathA, <<"G">>, 2)]
    /\ registry[2].cls = ClassObj(PathA, <<"G">>, 1)
    /\ get(<<"x">>, registry) = ClassObj(PathA, <<"G">>, 2)

\* a path-spec without separator, or with a script or class segment that is
\* empty or all whitespace
Blank(str) == \A i \in 1..Len(str) : str[i] = " "

LastSep(str) == CHOOSE i \in 1..Len(str) :
                   str[i] = ":" /\ \A j \in (i + 1)..Len(str) : str[j] # ":"

Malformed(model_path) ==
    \/ \A i \in 1..Len(model_path) : model_path[i] # ":"
    \/ Blank(SubSeq(model_path, 1, LastSep(model_path) - 1))
    \/ Blank(SubSeq(model_path, LastSep(model_path) + 1, Len(model_path)))

MalformedPaths == {p \in ModelPaths : Malformed(p)}

\* C11: register_from_path with a path-spec that has no separator, or whose
\* script or class segment is empty after trimming, fails with ValueError
\* without handing any path to the file system, without executing a script,
\* and leaves the registry unchanged: so it does in every state reached, and
\* the call that handed no path to the file system failed with ValueError.
C11_MalformedPathSpecRejected ==
    /\ \A n \in RegNames, p \in MalformedPaths :
          \A r \in {register_from_path(n, p, registry, execCount)} :
              /\ r.err = "ValueError"
              /\ r.probed = <<>>
              /\ r.reg = registry
              /\ r.ec = execCount
    /\ (last.op = "register_from_path" /\ last.probed = <<>>)
       => last.err = "ValueError"

\* a malformed path-spec has been refused on a registry that holds an entry
C11_Witness ==
    /\ last.op = "register_from_path"
    /\ last.err = "ValueError"
    /\ last.probed = <<>>
    /\ registry # <<>>

PyExt == <<".", "p", "y">>

\* C12: the loader executes a script only if its resolved path exists and
\* ends in .py: a missing file gives FileNotFoundError, whatever its
\* extension, an existing file of another extension gives ValueError, and
\* in both cases nothing is executed and the registry is unchanged; only
\* files ending in .py have ever been executed.
C12_OnlyExistingScriptsExecuted ==
    /\ \A f \in Files : execCount[f] > 0 => EndsWith(f, PyExt)
    /\ \A n \in RegNames, p \in ModelPaths \ MalformedPaths :
          \A r \in {register_from_path(n, p, registry, execCount)} :
              /\ Len(r.probed) = 1
              /\ r.probed[1] \notin Files
                 => (r.err = "FileNotFoundError" /\ r.reg = registry
                        /\ r.ec = execCount)
              /\ (r.probed[1] \in Files /\ ~EndsWith(r.probed[1], PyExt))
                 => (r.err = "ValueError" /\ r.reg = registry
                        /\ r.ec = execCount)
              /\ (r.probed[1] \in Files /\ EndsWith(r.probed[1], PyExt))
                 => r.ec = [execCount EXCEPT ![r.probed[1]] = @ + 1]
    /\ (last.op = "register_from_path" /\ last.probed # <<>>
            /\ last.probed[1] \notin Files)
       => last.err = "FileNotFoundError"

\* a missing file of the wrong extension has been reported as not found, on
\* a registry that holds an entry
C12_Witness ==
    /\ last.op = "register_from_path"
    /\ last.err = "FileNotFoundError"
    /\ last.probed = <<<<"/", "m", ".", "t", "x", "t">>>>
    /\ registry # <<>>

\* the outcome of ModelManager(a...) in the current state
Outcome(a, ok) ==
    manager_init(a.type, a.model, a.inst, a.kwargs, ok,
                 registry, execCount, objs, managers, hashSeed)

\* nothing was created, initialised, executed, registered or bound
NoEffect(r) ==
    /\ r.obj = 0
    /\ r.inits = 0
    /\ r.os = objs
    /\ r.reg = registry
    /\ r.ec = execCount
    /\ r.mgrs = managers

\* the similarity type with every combination of the other arguments
SimilarityArgs ==
    {CArgs("similarity", m, i, kw) :
        m \in {EnumCROSS, EnumBART, Str(SpecAG)}, i \in 0..Len(Prebuilt),
        kw \in KwargSets}

\* C13: constructing a Manager of the similarity type fails with
\* NotImplementedError whatever the other arguments are: no backend is
\* created, init_model is called on nothing, no script is executed, the
\* registry is unchanged and no Manager exists afterwards.
C13_SimilarityUnsupported ==
    /\ \A a \in SimilarityArgs, ok \in BOOLEAN :
          \A r \in {Outcome(a, ok)} :
              r.err = "NotImplementedError" /\ NoEffect(r)
    /\ (last.op = "ModelManager" /\ last.type = "similarity")
       => (last.err = "NotImplementedError" /\ last.obj = 0 /\ last.inits = 0)

\* a similarity construction that came with a path-spec, a pre-built
\* instance and keywords has been refused
C13_Witness ==
    /\ last.op = "ModelManager"
    /\ last.type = "similarity"
    /\ last.model = Str(SpecAG)
    /\ last.inst = 1
    /\ last.err = "NotImplementedError"

\* custom constructions with neither a path-spec nor an instance
AbsentArgs ==
    {CArgs("custom", m, 0, kw) : m \in {EnumCROSS, EnumBART}, kw \in KwargSets}

\* custom constructions with both a path-spec and an instance
ConflictingArgs ==
    {CArgs("custom", Str(p), i, kw) :
        p \in {SpecAG, SpecMG, SpecNoSep}, i \in 1..Len(Prebuilt), kw \in KwargSets}

\* C14 as stated: a custom construction with absent or with conflicting
\* options fails with ValueError before any init_model call.
C14_AbsentOrConflictingRejected ==
    (/\ last.op = "ModelManager"
     /\ last.type = "custom"
     /\ \/ (last.inst = 0 /\ ~last.model.isStr)
        \/ (last.inst # 0 /\ last.model.isStr))
    => (last.err = "ValueError" /\ last.inits = 0)

\* C14, amended: a custom construction with neither option fails with
\* ValueError and has no effect; with both options the pre-built instance
\* decides and the path-spec is ignored: no script is executed, the registry
\* is unchanged, and the construction ends as it does without the path-spec
\* (TypeError for an instance that is no ModelTemplate, otherwise the
\* instance is initialised and bound).
C14_AbsentRejectedInstanceWins ==
    /\ \A a \in AbsentArgs, ok \in BOOLEAN :
          \A r \in {Outcome(a, ok)} : r.err = "ValueError" /\ NoEffect(r)
    /\ \A a \in ConflictingArgs, ok \in BOOLEAN :
          \A r \in {Outcome(a, ok)} :
              /\ r.reg = registry
              /\ r.ec = execCount
              /\ r = Outcome([a EXCEPT !.model = EnumCROSS], ok)
              /\ ~IsInstanceOfTemplate(objs[a.inst])
                 => (r.err = "TypeError" /\ NoEffect(r))
              /\ (IsInstanceOfTemplate(objs[a.inst]) /\ ok)
                 => (r.err = "none" /\ r.obj = a.inst)
    /\ (last.op = "ModelManager" /\ last.type = "custom"
            /\ last.inst = 0 /\ ~last.model.isStr)
       => (last.err = "ValueError" /\ last.inits = 0 /\ last.obj = 0)

\* a Manager was constructed from a pre-built instance although a path-spec
\* came with it, and the script of the path-spec was not executed
C14_Witness ==
    /\ last.op = "ModelManager"
    /\ last.type = "custom"
    /\ last.model = Str(SpecAG)
    /\ last.inst = 1
    /\ last.err = "none"
    /\ last.obj = 1
    /\ execCount[PathA] = 0

\* the names a registry holds
Names(reg) == {reg[i].name : i \in 1..Len(reg)}

RegisterOps == {"register_from_path", "register_class"}
RemoveOps == {"unregister", "clear"}

C15_StatedStep ==
    /\ ~(Names(registry') \subseteq Names(registry))
       => last'.op \in RegisterOps
    /\ ~(Names(registry) \subseteq Names(registry'))
       => last'.op \in RemoveOps
    /\ last'.op \notin (RegisterOps \cup RemoveOps)
       => registry' = registry

C15_AutoRegisters ==
    /\ last'.op = "ModelManager"
    /\ last'.type = "custom"
    /\ last'.inst = 0
    /\ last'.model.isStr
    /\ auto_name(last'.model.val, hashSeed) \notin Names(registry)
    /\ Len(registry') = Len(registry) + 1
    /\ SubSeq(registry', 1, Len(registry)) = registry
    /\ registry'[Len(registry')].name = auto_name(last'.model.val, hashSeed)

C15_FrameStep ==
    /\ registry' # registry
       => (last'.op \in (RegisterOps \cup RemoveOps) \/ C15_AutoRegisters)
    /\ ~(Names(registry) \subseteq Names(registry'))
       => last'.op \in RemoveOps
    /\ last'.op \in RemoveOps
       => Names(registry') \subseteq Names(registry)
    /\ last'.op \in RegisterOps
       => Names(registry) \subseteq Names(registry')

C16_Step ==
    /\ Len(managers') >= Len(managers)
    /\ \A m \in 1..Len(managers) : managers'[m] = managers[m]
    /\ Len(managers') = Len(managers) + 1 =>
          /\ last'.op = "ModelManager"
          /\ managers'[Len(managers')].model = last'.obj
    /\ last'.op \in ClassifyOps =>
          \A o \in {managers[last'.mgr].model} :
          /\ last'.calls = <<BackendCall(o, last'.op, last'.input, last'.batch_size,
                                         [err |-> last'.err, val |-> last'.ret])>>
          /\ (last'.err = "none" /\ objs[o].cls # ZeroShotClass) =>
                last'.ret = CustomResult(o, last'.op, last'.input,
                                         last'.batch_size)

\* C16: a Manager is bound to exactly one backend instance for its whole
\* lifetime: no step changes the instance of an existing Manager, a
\* construction binds the instance it resolved, and every Manager classify
\* call is exactly one call of the same-named operation on the bound instance
\* with the same texts and batch_size, whose result is returned unmodified.
C16_BoundToOneBackend == [][C16_Step]_vars

\* the second of two Managers with different backends has classified with
\* its custom backend after the first one classified with its own
C16_Witness ==
    /\ Len(managers) = 2
    /\ managers[1].model # managers[2].model
    /\ objs[managers[1].model].classified
    /\ last.op \in ClassifyOps
    /\ last.mgr = 2
    /\ objs[managers[2].model].cls # ZeroShotClass
    /\ Len(last.calls) = 1
    /\ last.calls[1].obj = managers[2].model

\* what the two classify operations of Manager m give when the backend raises
FailedClassify(m, input, batch_size, asDict) ==
    {manager_classify_golden_signal(managers[m], input, batch_size, asDict,
                                    FALSE, objs),
     manager_classify_fault_category(managers[m], input, batch_size, asDict,
                                     FALSE, objs)}

\* C17: a failure raised by the backend during init_model() or during a
\* classify call reaches the caller of the Manager as that same failure,
\* after exactly one attempt of the failing operation: a construction that
\* would succeed with a working init_model ends in BackendFailure after one
\* init_model call and adds no Manager, a construction that fails before
\* init_model is not affected, and a classify call whose backend raises ends
\* in the failure of its single backend call.
C17_BackendFailurePropagates ==
    /\ \A a \in ManagerArgs :
          \A good \in {Outcome(a, TRUE)}, bad \in {Outcome(a, FALSE)} :
              IF good.err = "none"
              THEN /\ bad.err = "BackendFailure"
                   /\ bad.inits = 1
                   /\ bad.obj = 0
                   /\ bad.mgrs = managers
              ELSE bad = good
    /\ \A m \in 1..Len(managers), t \in TextSeqs(1), b \in BatchSizes :
          \A r \in FailedClassify(m, t, b, FALSE) :
              /\ r.err = "BackendFailure"
              /\ Len(r.calls) = 1
              /\ r.calls[1].ret.err = r.err
              /\ r.calls[1].obj = managers[m].model
    /\ (last.op = "ModelManager" /\ last.err = "BackendFailure")
          => (last.inits = 1 /\ last.obj = 0)
    /\ (last.op \in ClassifyOps /\ last.err = "BackendFailure")
          => (Len(last.calls) = 1 /\ last.calls[1].ret.err = "BackendFailure"
              /\ last.ret = NoResult)

\* a classify call of an existing Manager has ended in the backend's failure
C17_Witness ==
    /\ Len(managers) >= 1
    /\ last.op \in ClassifyOps
    /\ last.err = "BackendFailure"
    /\ Len(last.calls) = 1
    /\ objs[managers[last.mgr].model].initCalls = 1

\* the registry entries whose class was loaded from script file f
EntriesFrom(f) == {i \in 1..Len(registry) : registry[i].cls.origin = f}

\* C18: when two Manager constructions (or register_from_path calls) for the
\* same path-spec run concurrently in one process, under every interleaving
\* of their is-registered check, script load and registry write the script
\* is executed at most once, and when both are through the registry holds a
\* single entry for that path-spec.
C18_ConcurrentLoadOnce ==
    /\ execCount[PathA] <= 1
    /\ (\A t \in Threads : threads[t].pc = "done")
          => Cardinality(EntriesFrom(PathA)) = 1

\* strings of up to MaxLen separators, blanks and letters
MaxLen == 3
ParseInputs == UNION {[1..k -> {":", " ", "c"}] : k \in 1..MaxLen}

\* s without the blanks around it
Trimmed(s) ==
    IF Blank(s) THEN <<>>
    ELSE SubSeq(s, CHOOSE i \in 1..Len(s) :
                       s[i] # " " /\ \A j \in 1..(i - 1) : s[j] = " ",
                   CHOOSE i \in 1..Len(s) :
                       s[i] # " " /\ \A j \in (i + 1)..Len(s) : s[j] = " ")

\* what parsing gives for a path-spec with a separator: the trimmed text
\* before and after the rightmost one, refused when either is empty
SplitAtRightmost(model_path, r) ==
    \A before \in {Trimmed(SubSeq(model_path, 1, LastSep(model_path) - 1))},
       after  \in {Trimmed(SubSeq(model_path, LastSep(model_path) + 1,
                                  Len(model_path)))} :
        IF before = <<>> \/ after = <<>>
        THEN r.err = "ValueError"
        ELSE /\ r.err = "none"
             /\ r.script = before
             /\ r.class = after
             /\ ~Contains(r.class, ":")

\* C19: for every path-spec string containing at least one separator,
\* parse_model_path splits at the rightmost separator only: the script
\* segment is everything before it, further separators included, the class
\* segment everything after it, both with the surrounding whitespace trimmed,
\* so the class segment never contains a separator; and a registration hands
\* the file system the script segment so obtained.
C19_SplitsAtRightmostSeparator ==
    /\ \A p \in ParseInputs \cup ModelPaths :
          Contains(p, ":") =>
              \A r \in {parse_model_path(p)} : SplitAtRightmost(p, r)
    /\ \A n \in RegNames, p \in ModelPaths :
          (Contains(p, ":") /\ ~Malformed(p)) =>
              \A r \in {register_from_path(n, p, registry, execCount)} :
                  r.probed =
                    <<AbsPath(ExpandUser(Trimmed(SubSeq(p, 1, LastSep(p) - 1))))>>

\* a path-spec with a drive-letter script path, blanks around both segments,
\* has been registered: the file system was asked for the whole script path
C19_Witness ==
    /\ last.op = "register_from_path"
    /\ last.err = "FileNotFoundError"
    /\ last.probed = <<<<"/", "c", ":", "/", "a", ".", "p", "y">>>>
    /\ registry # <<>>

\* the classes of the registry entries written by the step
Written == {registry'[i].cls : i \in 1..Len(registry')}
               \ {registry[i].cls : i \in 1..Len(registry)}

\* a registration creates and initialises nothing, the class it wrote has no
\* instance, and an instance of a loaded class appears only in the
\* construction of a Manager from a path-spec
C20_Step ==
    /\ last'.op = "register_from_path" =>
          /\ objs' = objs
          /\ managers' = managers
          /\ \A o \in 1..Len(objs') : objs'[o].cls \notin Written
    /\ \A o \in 1..Len(objs') :
          (o > Len(objs) /\ objs'[o].cls.origin \in Files) =>
              /\ last'.op = "ModelManager"
              /\ last'.type = "custom"
              /\ last'.model.isStr
              /\ last'.inst = 0
    /\ \A o \in 1..Len(objs) :
          objs'[o].initCalls # objs[o].initCalls => last'.op = "ModelManager"

\* C20: register_from_path and the Loader never instantiate the loaded type
\* and never call init_model(): a registration leaves the instances as they
\* are, after a successful registration no instance of the type it loaded
\* exists, and an instance of a loaded type is created only by a Manager
\* construction in path-spec mode.
C20_RegistrationNeverInstantiates == [][C20_Step]_vars

\* a script was registered while a Manager already had an instance of an
\* earlier load of it: the newly registered class has no instance
C20_Witness ==
    /\ last.op = "register_from_path"
    /\ last.err = "none"
    /\ registry # <<>>
    /\ \E o \in 1..Len(objs) : objs[o].cls.origin = PathA
    /\ \A o \in 1..Len(objs), i \in 1..Len(registry) :
          registry[i].cls.origin = PathA => objs[o].cls # registry[i].cls

\* the file a well-formed path-spec designates, and the class name it asks for
ScriptOf(model_path) ==
    AbsPath(ExpandUser(Trimmed(SubSeq(model_path, 1, LastSep(model_path) - 1))))
ClassOf(model_path) ==
    Trimmed(SubSeq(model_path, LastSep(model_path) + 1, Len(model_path)))

\* the path-specs of a script that runs but has no attribute of that name
MissingClassPaths ==
    {p \in ModelPaths :
        /\ ~Malformed(p)
        /\ ScriptOf(p) \in Files
        /\ EndsWith(ScriptOf(p), PyExt)
        /\ ClassOf(p) \notin ModuleAttrs(ScriptOf(p))}

\* list names exactly the attributes of the module of file f that are types,
\* each once
ListsTheTypes(list, f) ==
    /\ {list[i] : i \in 1..Len(list)} =
          {a \in ModuleAttrs(f) : IsType(ClassObj(f, a, 0))}
    /\ \A i, j \in 1..Len(list) : list[i] = list[j] => i = j

\* C21: when the loaded module has no attribute with the requested class
\* name, the Loader fails with an AttributeError whose message lists the
\* names of all type objects present in the loaded module, and only those,
\* and nothing is stored in the registry.
C21_MissingClassListsTypes ==
    /\ \A n \in RegNames, p \in MissingClassPaths :
          \A r \in {register_from_path(n, p, registry, execCount)} :
              /\ r.err = "AttributeError"
              /\ ListsTheTypes(r.available, ScriptOf(p))
              /\ r.reg = registry
    /\ (last.op = "register_from_path" /\ last.err = "AttributeError")
          => ListsTheTypes(last.available, last.probed[1])

\* a class the script does not define was asked for on a registry that holds
\* an entry: the error lists the script's four types and not its function
C21_Witness ==
    /\ last.op = "register_from_path"
    /\ last.err = "AttributeError"
    /\ last.available = <<<<"D">>, <<"G">>, <<"ModelTemplate">>, <<"P">>>>
    /\ registry # <<>>

\* the names that have an entry in registry reg
RegisteredNames(reg) == {reg[i].name : i \in 1..Len(reg)}

\* what unregister(name) has to give on the registry: true exactly when name
\* had an entry, no entry of name afterwards, every other entry as it was
UnregisterEffect(name, r) ==
    /\ r.ret = (name \in RegisteredNames(registry))
    /\ ~is_registered(name, r.reg)
    /\ get(name, r.reg) = NoneVal
    /\ RegisteredNames(r.reg) = RegisteredNames(registry) \ {name}
    /\ \A k \in AllNames \ {name} : get(k, r.reg) = get(k, registry)
    /\ Len(r.reg) = Cardinality(RegisteredNames(r.reg))

\* C22: unregister(name) returns true exactly when name was registered
\* immediately before the call; afterwards is_registered(name) is false and
\* get(name) yields nothing, and every other entry is unchanged. clear()
\* leaves the registry with no entries, and in every state
\* is_registered(name) holds exactly when get(name) yields a type and exactly
\* when name is in list_registered().
C22_RegistryQueriesAgree ==
    /\ \A n \in AllNames :
          \A r \in {unregister(n, registry)} : UnregisterEffect(n, r)
    /\ \A n \in AllNames : ~is_registered(n, clear(registry))
    /\ list_registered(clear(registry)) = <<>>
    /\ \A n \in AllNames, keys \in {list_registered(registry)} :
          /\ is_registered(n, registry) <=> IsType(get(n, registry))
          /\ is_registered(n, registry) <=> \E i \in 1..Len(keys) : keys[i] = n
    /\ last.op = "unregister" =>
          (~is_registered(last.name, registry)
              /\ get(last.name, registry) = NoneVal)
    /\ last.op = "clear" => list_registered(registry) = <<>>

\* the name x was unregistered from a registry of two entries: the call
\* returned true and the entry of the derived name is still there
C22_Witness ==
    /\ last.op = "unregister"
    /\ last.name = <<"x">>
    /\ last.ret
    /\ Len(registry) = 1
    /\ is_registered(auto_name(SpecAG, hashSeed), registry)

\* path-specs naming a class outside the contract and a function of a.py
SpecAD == <<"a", ".", "p", "y", ":", "D">>
SpecAf == <<"a", ".", "p", "y", ":", "f">>

\* the path-specs tried, with those of every kind of failure among them
FailPaths == ModelPaths \cup {SpecAD, SpecAf}

\* the kinds of failure a registration has
RegisterErrors ==
    {"ValueError", "FileNotFoundError", "AttributeError", "TypeError"}

\* a registration step that failed left the registry as it was
C23_Step ==
    (last'.op \in {"register_from_path", "register_class"}
        /\ last'.err # "none") => registry' = registry

\* C23: a register_from_path or register_class call that fails (format
\* error, missing file, missing class, contract violation) leaves the whole
\* registry mapping exactly as it was before the call; in particular the
\* type registered under the name before stays retrievable under it.
C23_FailedRegistrationKeepsRegistry ==
    /\ [](\A n \in RegNames, p \in FailPaths :
             \A r \in {register_from_path(n, p, registry, execCount)} :
                 r.err # "none" =>
                     /\ r.err \in RegisterErrors
                     /\ r.reg = registry
                     /\ get(n, r.reg) = get(n, registry))
    /\ [](\A e \in RegisterErrors : \E p \in FailPaths :
             register_from_path(<<"x">>, p, registry, execCount).err = e)
    /\ [](\A n \in RegNames, c \in CallerValues \cup {NoneVal} :
             \A r \in {register_class(n, c, registry)} :
                 r.err # "none" =>
                     (r.reg = registry /\ get(n, r.reg) = get(n, registry)))
    /\ [][C23_Step]_vars

\* a register_class call was refused while both names were registered: the
\* two entries are still there
C23_Witness ==
    /\ last.op = "register_class"
    /\ last.err = "TypeError"
    /\ Len(registry) = 2
    /\ \A n \in RegNames : IsType(get(n, registry))

\* cls is the class path-spec p designates: the class of that name in that
\* script
Designated(p, cls) == cls.origin = ScriptOf(p) /\ cls.name = ClassOf(p)

\* the last call was a successful construction in path-spec mode
BuiltFromPath ==
    /\ last.op = "ModelManager"
    /\ last.err = "none"
    /\ last.type = "custom"
    /\ last.inst = 0
    /\ last.model.isStr

\* C24: after any sequence of registry operations and Manager constructions,
\* a Manager successfully constructed in path-spec mode with path-spec P is
\* bound to an instance of the class that P designates; in particular two
\* distinct path-specs never resolve to the same registry key, and an entry
\* placed under the derived key by another operation is never instantiated
\* in its place.
C24_PathSpecDesignatesBackend ==
    /\ BuiltFromPath => Designated(last.model.val, objs[last.obj].cls)
    /\ \A p, q \in ModelPaths :
          p # q => auto_name(p, hashSeed) # auto_name(q, hashSeed)

\* constructions with the built-in selector, and custom constructions with a
\* pre-built instance, each with and without a path-spec and keywords
DirectArgs ==
    {CArgs("zero_shot", m, i, {"threshold"}) :
        m \in {EnumCROSS, Str(SpecAG)}, i \in {0, 1}}
    \cup {CArgs("custom", m, i, kw) :
            m \in {EnumCROSS, Str(SpecAG)}, i \in 1..Len(Prebuilt),
            kw \in KwargSets}

\* the registry with another class under the key derived for a.py:G
Poisoned ==
    DictSet(registry, auto_name(SpecAG, hashSeed), ClassObj(MainModule, <<"P">>, 0))

\* the construction a on registry reg
OutcomeOn(a, ok, reg) ==
    manager_init(a.type, a.model, a.inst, a.kwargs, ok,
                 reg, execCount, objs, managers, hashSeed)

\* r and q are the same outcome but for the registry they hand back
SameButRegistry(r, q) == [r EXCEPT !.reg = <<>>] = [q EXCEPT !.reg = <<>>]

\* C25: constructing a Manager with the built-in selector, or with a
\* pre-built instance, never reads or writes the registry and never loads a
\* script: the registry and the executions are handed back as they were and
\* the outcome is the same on any other registry; with a pre-built instance
\* the Manager is bound to that very object, no object is created, and the
\* outcome does not depend on the keyword mapping.
C25_DirectConstructionSkipsRegistry ==
    /\ \A a \in DirectArgs :
          \A r \in {Outcome(a, TRUE)} :
              /\ r.reg = registry
              /\ r.ec = execCount
              /\ SameButRegistry(r, OutcomeOn(a, TRUE, <<>>))
              /\ SameButRegistry(r, OutcomeOn(a, TRUE, Poisoned))
              /\ (a.type = "custom" /\ r.err = "none") =>
                    /\ r.obj = a.inst
                    /\ r.os = [objs EXCEPT ![a.inst].initCalls = @ + 1]
              /\ (a.type = "custom" /\ a.kwargs # {}) =>
                    r = Outcome([a EXCEPT !.kwargs = {}], TRUE)
    /\ \A a \in DirectArgs :
          \A r \in {Outcome(a, FALSE)} :
              r.reg = registry /\ r.ec = execCount
    /\ (last.op = "ModelManager" /\ last.err = "none"
            /\ last.type = "custom" /\ last.inst # 0) =>
          /\ last.obj = last.inst
          /\ last.inst <= Len(Prebuilt)
          /\ objs[last.obj].cls = Prebuilt[last.inst].cls
          /\ objs[last.obj].kwargs = Prebuilt[last.inst].kwargs

\* after a construction from a path-spec filled the registry, a Manager was
\* built from the caller's instance, a path-spec given along with it
C25_Witness ==
    /\ last.op = "ModelManager"
    /\ last.err = "none"
    /\ last.type = "custom"
    /\ last.inst = 1
    /\ last.model = Str(SpecAG)
    /\ last.obj = 1
    /\ registry # <<>>
    /\ Len(managers) = 2

\* the Managers bound to instance o
BoundTo(o) == {m \in 1..Len(managers) : managers[m].model = o}

\* the instances made of classes loaded from scripts
LoadedInstances == {o \in 1..Len(objs) : objs[o].cls.origin \in Files}

\* a successful construction from a path-spec made a new instance of the
\* type then under the derived key, initialised it once, bound the new
\* Manager to it and left every other instance as it was
C26_Step ==
    (/\ last'.op = "ModelManager"
     /\ last'.err = "none"
     /\ last'.type = "custom"
     /\ last'.inst = 0
     /\ last'.model.isStr) =>
        /\ last'.obj = Len(objs) + 1
        /\ Len(objs') = Len(objs) + 1
        /\ \A k \in 1..Len(objs) : objs'[k] = objs[k]
        /\ objs'[last'.obj].cls =
              get(auto_name(last'.model.val, hashSeed), registry')
        /\ objs'[last'.obj].kwargs = last'.kwargs
        /\ objs'[last'.obj].initCalls = 1
        /\ managers' = Append(managers, [model |-> last'.obj])

\* C26: the registry caches types, never instances: every Manager
\* construction in path-spec mode creates a new backend instance of the
\* cached type and initialises that new instance, so two Managers built from
\* the same path-spec never share a backend instance and no instance so
\* created receives init_model() from more than one Manager.
C26_TypesCachedInstancesFresh ==
    /\ [](\A i \in 1..Len(registry) : IsType(registry[i].cls))
    /\ [](\A o \in LoadedInstances :
             objs[o].initCalls = 1 /\ Cardinality(BoundTo(o)) = 1)
    /\ [][C26_Step]_vars

\* two Managers were built from the same path-spec: they hold two instances
\* of the one cached class, each initialised once
C26_Witness ==
    /\ Len(managers) = 2
    /\ managers[1].model # managers[2].model
    /\ objs[managers[1].model].cls = objs[managers[2].model].cls
    /\ objs[managers[1].model].cls.origin = PathA
    /\ objs[managers[1].model].initCalls = 1
    /\ objs[managers[2].model].initCalls = 1
    /\ Len(registry) = 1

====
